---- MODULE Spec2Model ----
(***************************************************************************)
(* RPCServer (rabbitmq/rpc_server.py): an AMQP consumer that dispatches    *)
(* each delivery to a method of the server object and lets that method     *)
(* answer through a per-delivery reply closure.                            *)
(*                                                                         *)
(* The channel is observed through the sequence of calls made on it        *)
(* (basic_publish / basic_ack).  Every recorded call carries, next to the  *)
(* arguments of the call, the field `by`: the delivery tag of the          *)
(* invocation of serve (or of the reply closure built by it) that issued   *)
(* the call.                                                               *)
(***************************************************************************)
EXTENDS Integers, Sequences, FiniteSets, TLC

VARIABLES calls,      \* calls made on the channel so far, in order
          served,     \* one record per delivery handed to serve, in order
          deferred,   \* reply closures a handler kept to call after serve returned
          consuming   \* the start_consuming loop is still running

vars == <<calls, served, deferred, consuming>>

(***************************************************************************)
(* Bounds and constants                                                    *)
(***************************************************************************)
MaxDeliveries == 2

METHOD_ATTRIBUTE == "method"
ARGS_ATTRIBUTE == "args"
PREFETCH_COUNT == 1

\* Python's None for props.reply_to / props.correlation_id / getattr default.
None == "<None>"

(***************************************************************************)
(* JSON values as json.loads yields them: str, int, list, dict.  A dict is *)
(* kept as its sequence of <<key, value>> pairs (insertion order, which is *)
(* the order json.dumps writes).                                           *)
(***************************************************************************)
JStr(s) == [kind |-> "str", str |-> s]
JNum(n) == [kind |-> "num", num |-> n]
JArr(s) == [kind |-> "arr", items |-> s]
JObj(p) == [kind |-> "obj", pairs |-> p]

Keys(d) == {d.pairs[i][1] : i \in DOMAIN d.pairs}

\* d[key] on a dict
GetItem(d, key) == d.pairs[CHOOSE i \in DOMAIN d.pairs : d.pairs[i][1] = key][2]

\* `key in c` is defined for dict (key membership) and list (element
\* membership); on an int it raises TypeError.
SupportsIn(c) == c.kind \in {"obj", "arr"}

In(key, c) ==
    IF c.kind = "obj" THEN key \in Keys(c)
    ELSE \E i \in DOMAIN c.items : c.items[i] = JStr(key)

RECURSIVE encode_json(_)
RECURSIVE encode_items(_, _)
RECURSIVE encode_pairs(_, _)

\* json.dumps(object): the JSON text of a value
encode_json(v) ==
    CASE v.kind = "str" -> "\"" \o v.str \o "\""
      [] v.kind = "num" -> ToString(v.num)
      [] v.kind = "arr" -> "[" \o encode_items(v.items, 1) \o "]"
      [] v.kind = "obj" -> "{" \o encode_pairs(v.pairs, 1) \o "}"

encode_items(s, i) ==
    IF i > Len(s) THEN ""
    ELSE encode_json(s[i]) \o (IF i < Len(s) THEN ", " ELSE "") \o encode_items(s, i + 1)

encode_pairs(p, i) ==
    IF i > Len(p) THEN ""
    ELSE "\"" \o p[i][1] \o "\": " \o encode_json(p[i][2])
         \o (IF i < Len(p) THEN ", " ELSE "") \o encode_pairs(p, i + 1)

(***************************************************************************)
(* The requests a client can send.                                         *)
(***************************************************************************)
Pair(k, v) == << <<k, v>> >>

NoKey == << >>
Method(name) == Pair(METHOD_ATTRIBUTE, JStr(name))
Args(pairs) == Pair(ARGS_ATTRIBUTE, JObj(pairs))

Msg(v) == Pair("msg", v)
X1 == Pair("x", JNum(1))
Y2 == Pair("y", JNum(2))
Extra == Pair("extra", JStr("ignored"))

RequestPairs ==
       {NoKey \o a : a \in {NoKey, Args(NoKey), Args(Msg(JStr("hi")))}}
  \cup {Method("foo") \o a : a \in {NoKey, Args(NoKey)}}
  \cup {Method("echo") \o a : a \in
            {NoKey, Args(NoKey), Args(Msg(JStr("hi"))), Args(Msg(JNum(5))),
             Args(Msg(JStr("hi")) \o Extra), Args(Extra \o Msg(JNum(5))),
             Args(Msg(JStr("hi")) \o Pair("reply_fun", JStr("f"))),
             Pair(ARGS_ATTRIBUTE, JArr(<<JStr("msg")>>)),
             Pair(ARGS_ATTRIBUTE, JNum(0))}}
  \cup {Method("add") \o a : a \in
            {NoKey, Args(NoKey), Args(X1), Args(Y2), Args(Y2 \o X1)}}
  \cup {Method("mute") \o a : a \in {NoKey, Args(NoKey), Pair(ARGS_ATTRIBUTE, JNum(0))}}
  \cup {Method(m) \o Args(NoKey) : m \in {"twice", "later", "run", "on_run"}}
  \cup {Method(m) \o a : m \in {"setup", "_l"}, a \in {NoKey, Args(NoKey)}}
  \cup {Pair(METHOD_ATTRIBUTE, JNum(7)) \o a : a \in {NoKey, Args(NoKey)}}
  \cup {Args(Msg(JStr("hi"))) \o Method("echo")}

\* every value a payload of the model decodes to
JsonUniverse ==
       {JObj(p) : p \in RequestPairs}
  \cup {JNum(5), JArr(<< >>), JArr(<<JStr(METHOD_ATTRIBUTE)>>)}

\* a payload that is not JSON
Garbage == "{"

\* the JSON text of every value of the universe
Wire == [v \in JsonUniverse |-> encode_json(v)]

Bodies == {Wire[v] : v \in JsonUniverse} \cup {Garbage}

\* json.loads(bytes): the value whose JSON text the payload is; raises on
\* a payload that is not JSON text.
Decodable(body) == \E v \in JsonUniverse : Wire[v] = body

decode_json(body) == CHOOSE v \in JsonUniverse : Wire[v] = body

Request(pairs) == Wire[JObj(pairs)]

\* The deliveries of the model: pika.BasicProperties (reply_to,
\* correlation_id) and body.  Every body arrives with reply address R1; a
\* body of every shape arrives without reply address; a few arrive from a
\* second client.
Envelope(reply_to, correlation_id, body) ==
    [props |-> [reply_to |-> reply_to, correlation_id |-> correlation_id], body |-> body]

Envelopes ==
       {Envelope("R1", "C1", b) : b \in Bodies}
  \cup {Envelope(None, "C1", b) : b \in
            {Garbage, Wire[JNum(5)], Wire[JArr(<< >>)], Request(NoKey),
             Request(Method("foo")), Request(Method("echo") \o Args(Msg(JStr("hi")))),
             Request(Method("mute") \o Args(NoKey)),
             Request(Method("twice") \o Args(NoKey))}}
  \cup {Envelope("R2", "C2", b) : b \in
            {Request(Method("echo") \o Args(Msg(JStr("hi")))),
             Request(Method("later") \o Args(NoKey)),
             Request(Method("twice") \o Args(NoKey)),
             Request(Args(NoKey))}}
  \cup {Envelope("R2", None, Request(Method("echo") \o Args(Msg(JNum(5)))))}

(***************************************************************************)
(* The server object.  The class under test is RPCServer specialised, as   *)
(* its docstring prescribes, by a subclass that adds handler methods:      *)
(*   add(self, x, reply_fun, y)  replies x + y                             *)
(*   mute(self, reply_fun)       returns without calling reply_fun         *)
(*   twice(self, reply_fun)      calls reply_fun two times                 *)
(*   later(self, reply_fun)      keeps reply_fun and calls it after serve  *)
(*                               has returned                              *)
(*   on_run(self, reply_fun)     replies "ran"                             *)
(***************************************************************************)
HandlerNames == {"echo", "add", "mute", "twice", "later", "on_run"}

\* methods of RPCServer that are not handlers
OwnMethods == {"serve", "setup", "start_serving"}

\* data attributes set in __init__
DataAttributes == {"_l"}

\* faulty variant: the lookup never yields None
HasAttr_any(name) == TRUE

\* getattr(self, name, None) is not None
HasAttr(name) == name \in HandlerNames \cup OwnMethods \cup DataAttributes

\* inspect.signature(method_op) raises TypeError on an object that is not callable
Callable(name) == name \in HandlerNames \cup OwnMethods

\* list(inspect.signature(method_op).parameters) of a bound method
signature(name) ==
    CASE name = "echo" -> <<"msg", "reply_fun">>
      [] name = "add" -> <<"x", "reply_fun", "y">>
      [] name \in {"mute", "twice", "later", "on_run"} -> <<"reply_fun">>
      [] name = "serve" -> <<"ch", "method", "props", "body">>
      [] name = "setup" -> <<"routing_key", "queue_name">>
      [] name = "start_serving" -> << >>

\* f"{method_op}": repr of the bound method; the address of the server
\* object is fixed for the life of the process.
ObjectAddress == "0x7f3a5c0d2e80"

Repr(name) ==
    "<bound method RPCServer." \o name \o " of <rabbitmq.rpc_server.RPCServer object at "
        \o ObjectAddress \o ">>"

(***************************************************************************)
(* Calls on the channel                                                    *)
(***************************************************************************)
basic_publish(exchange, routing_key, correlation_id, body, by) ==
    [op |-> "basic_publish", exchange |-> exchange, routing_key |-> routing_key,
     correlation_id |-> correlation_id, body |-> body, by |-> by]

basic_ack(delivery_tag, by) ==
    [op |-> "basic_ack", delivery_tag |-> delivery_tag, by |-> by]

\* faulty variant: the closure takes the routing key for the correlation id
\* and the correlation id for the routing key
ReplyClosure_swapped(method, props) ==
    [routing_key_reply |-> props.correlation_id,
     request_id |-> props.reply_to,
     delivery_tag |-> method.delivery_tag]

\* faulty variant: the closure drops the correlation id of the request
ReplyClosure_uncorrelated(method, props) ==
    [routing_key_reply |-> props.reply_to,
     request_id |-> None,
     delivery_tag |-> method.delivery_tag]

\* The closure `reply` built by serve: it captures routing_key_reply,
\* request_id and method.delivery_tag of its delivery.
ReplyClosure(method, props) ==
    [routing_key_reply |-> props.reply_to,
     request_id |-> props.correlation_id,
     delivery_tag |-> method.delivery_tag]

\* faulty variant: the closure acknowledges before it publishes
reply_ack_first(reply_fun, msg) ==
    << basic_ack(reply_fun.delivery_tag, reply_fun.delivery_tag),
       basic_publish("", reply_fun.routing_key_reply, reply_fun.request_id,
                     encode_json(msg), reply_fun.delivery_tag) >>

\* reply(msg): the calls it makes on the channel, in order
reply(reply_fun, msg) ==
    << basic_publish("", reply_fun.routing_key_reply, reply_fun.request_id,
                     encode_json(msg), reply_fun.delivery_tag),
       basic_ack(reply_fun.delivery_tag, reply_fun.delivery_tag) >>

\* faulty variant: the error object uses another key
Error_message(text) == JObj(Pair("message", JStr(text)))

Error(text) == JObj(Pair("error", JStr(text)))

(***************************************************************************)
(* Handlers: the calls made on the channel while the handler runs, and the *)
(* closures it keeps for later.                                            *)
(***************************************************************************)
Effect(c, k) == [calls |-> c, kept |-> k]

echo(msg, reply_fun) == Effect(reply(reply_fun, msg), {})

add(x, reply_fun, y) == Effect(reply(reply_fun, JNum(x.num + y.num)), {})

mute(reply_fun) == Effect(<< >>, {})

twice(reply_fun) ==
    Effect(reply(reply_fun, JStr("first")) \o reply(reply_fun, JStr("second")), {})

later(reply_fun) == Effect(<< >>, {reply_fun})

on_run(reply_fun) == Effect(reply(reply_fun, JStr("ran")), {})

\* method_op(**args, reply_fun=reply) once the keywords are bound
Invoke(name, args, reply_fun) ==
    CASE name = "echo" -> echo(GetItem(args, "msg"), reply_fun)
      [] name = "add" -> add(GetItem(args, "x"), reply_fun, GetItem(args, "y"))
      [] name = "mute" -> mute(reply_fun)
      [] name = "twice" -> twice(reply_fun)
      [] name = "later" -> later(reply_fun)
      [] name = "on_run" -> on_run(reply_fun)

(***************************************************************************)
(* serve(self, ch, method, props, body)                                    *)
(*                                                                         *)
(* Outcome of one invocation: the calls made on the channel, the closures  *)
(* the handler kept, whether serve returned or raised, and the handler     *)
(* invocations (name and keyword arguments) that took place.               *)
(***************************************************************************)
Outcome(c, k, r, i) == [calls |-> c, kept |-> k, result |-> r, invoked |-> i]

Returned(c) == Outcome(c, {}, "returned", << >>)

Raised == Outcome(<< >>, {}, "raised", << >>)

\* faulty variant: serve acknowledges by itself once the handler has returned
Call_acking(name, args, reply_fun) ==
    IF args.kind # "obj" THEN Raised
    ELSE IF "reply_fun" \in Keys(args) THEN Raised
    ELSE IF ~(Keys(args) \subseteq {signature(name)[i] : i \in DOMAIN signature(name)})
         THEN Raised
    ELSE LET e == Invoke(name, args, reply_fun)
         IN  Outcome(e.calls \o <<basic_ack(reply_fun.delivery_tag, reply_fun.delivery_tag)>>,
                     e.kept, "returned", <<[name |-> name, kwargs |-> args]>>)

\* line 144: method_op(**args, reply_fun=reply)
Call(name, args, reply_fun) ==
    IF args.kind # "obj" THEN Raised                        \* ** needs a mapping
    ELSE IF "reply_fun" \in Keys(args) THEN Raised           \* keyword given twice
    ELSE IF ~(Keys(args) \subseteq {signature(name)[i] : i \in DOMAIN signature(name)})
         THEN Raised                                          \* unexpected keyword
    ELSE LET e == Invoke(name, args, reply_fun)
         IN  Outcome(e.calls, e.kept, "returned", <<[name |-> name, kwargs |-> args]>>)

\* faulty variant: the loop reports the last missing parameter instead of the first
CheckArguments_last(name, args, reply_fun) ==
    LET parameters == signature(name)
        named == SelectSeq(parameters, LAMBDA a : a # "reply_fun")
    IN  IF named # << >> /\ ~SupportsIn(args) THEN Raised
        ELSE LET missing == SelectSeq(named, LAMBDA a : ~In(a, args))
             IN  IF missing # << >>
                 THEN Returned(reply(reply_fun,
                        Error("Message received does not specify argument "
                              \o missing[Len(missing)]
                              \o " in attribute " \o ARGS_ATTRIBUTE \o ".")))
                 ELSE Call(name, args, reply_fun)

\* lines 134-144: the loop over the declared parameters, then the call
CheckArguments(name, args, reply_fun) ==
    LET parameters == signature(name)
        named == SelectSeq(parameters, LAMBDA a : a # "reply_fun")
    IN  IF named # << >> /\ ~SupportsIn(args) THEN Raised    \* `arg_name not in args`
        ELSE LET missing == SelectSeq(named, LAMBDA a : ~In(a, args))
             IN  IF missing # << >>
                 THEN Returned(reply(reply_fun,
                        Error("Message received does not specify argument " \o Head(missing)
                              \o " in attribute " \o ARGS_ATTRIBUTE \o ".")))
                 ELSE Call(name, args, reply_fun)

\* faulty variant: the named arguments are checked before the declaration of
\* reply_fun
CheckArgs_named_first(name, body_json, reply_fun) ==
    IF ~In(ARGS_ATTRIBUTE, body_json)
    THEN Returned(reply(reply_fun,
            Error("Message received does not have arguments in attribute "
                  \o ARGS_ATTRIBUTE \o ".")))
    ELSE IF ~Callable(name) THEN Raised
    ELSE LET args == GetItem(body_json, ARGS_ATTRIBUTE)
             named == SelectSeq(signature(name), LAMBDA a : a # "reply_fun")
         IN  IF named # << >> /\ ~SupportsIn(args) THEN Raised
             ELSE LET missing == SelectSeq(named, LAMBDA a : ~In(a, args))
                  IN  IF missing # << >>
                      THEN Returned(reply(reply_fun,
                             Error("Message received does not specify argument "
                                   \o Head(missing) \o " in attribute "
                                   \o ARGS_ATTRIBUTE \o ".")))
                      ELSE IF ~(\E i \in DOMAIN signature(name) :
                                    signature(name)[i] = "reply_fun")
                      THEN Returned(reply(reply_fun,
                             Error("Method " \o Repr(name)
                                   \o " must declare a parameter 'reply_fun'"
                                   \o " that must be invoked to reply to an invokation.")))
                      ELSE Call(name, args, reply_fun)

\* lines 118-133: args present, signature declares reply_fun
CheckArgs(name, body_json, reply_fun) ==
    IF ~In(ARGS_ATTRIBUTE, body_json)
    THEN Returned(reply(reply_fun,
            Error("Message received does not have arguments in attribute "
                  \o ARGS_ATTRIBUTE \o ".")))
    ELSE IF ~Callable(name) THEN Raised                       \* inspect.signature
    ELSE IF ~(\E i \in DOMAIN signature(name) : signature(name)[i] = "reply_fun")
    THEN Returned(reply(reply_fun,
            Error("Method " \o Repr(name) \o " must declare a parameter 'reply_fun'"
                  \o " that must be invoked to reply to an invokation.")))
    ELSE CheckArguments(name, GetItem(body_json, ARGS_ATTRIBUTE), reply_fun)

\* faulty variant: the presence of args is checked before the method is resolved
CheckMethod_args_first(body_json, reply_fun) ==
    IF ~SupportsIn(body_json) THEN Raised
    ELSE IF ~In(METHOD_ATTRIBUTE, body_json)
    THEN Returned(reply(reply_fun,
            Error("Attribute " \o METHOD_ATTRIBUTE \o " must be specified.")))
    ELSE IF body_json.kind # "obj" THEN Raised
    ELSE IF ~In(ARGS_ATTRIBUTE, body_json)
    THEN Returned(reply(reply_fun,
            Error("Message received does not have arguments in attribute "
                  \o ARGS_ATTRIBUTE \o ".")))
    ELSE LET server_method == GetItem(body_json, METHOD_ATTRIBUTE)
         IN  IF server_method.kind # "str" THEN Raised
             ELSE IF ~HasAttr(server_method.str)
             THEN Returned(reply(reply_fun,
                    Error("Method specified does not exist: " \o server_method.str \o ".")))
             ELSE CheckArgs(server_method.str, body_json, reply_fun)

\* lines 101-116: method present, method resolves
CheckMethod(body_json, reply_fun) ==
    IF ~SupportsIn(body_json) THEN Raised                     \* `in` on an int
    ELSE IF ~In(METHOD_ATTRIBUTE, body_json)
    THEN Returned(reply(reply_fun,
            Error("Attribute " \o METHOD_ATTRIBUTE \o " must be specified.")))
    ELSE IF body_json.kind # "obj" THEN Raised                \* list["method"]
    ELSE LET server_method == GetItem(body_json, METHOD_ATTRIBUTE)
         IN  IF server_method.kind # "str" THEN Raised        \* getattr(self, 7, None)
             ELSE IF ~HasAttr(server_method.str)
             THEN Returned(reply(reply_fun,
                    Error("Method specified does not exist: " \o server_method.str \o ".")))
             ELSE CheckArgs(server_method.str, body_json, reply_fun)

\* faulty variant: the path without reply address acknowledges and goes on
\* (the return is missing)
Serve_fallthrough(method, props, body) ==
    IF ~Decodable(body) THEN Raised
    ELSE IF props.reply_to = None
    THEN LET o == CheckMethod(decode_json(body), ReplyClosure(method, props))
         IN  Outcome(<<basic_ack(method.delivery_tag, method.delivery_tag)>> \o o.calls,
                     o.kept, o.result, o.invoked)
    ELSE CheckMethod(decode_json(body), ReplyClosure(method, props))

\* faulty variant: a payload that does not decode is answered with an error
Serve_answering_garbage(method, props, body) ==
    IF ~Decodable(body)
    THEN IF props.reply_to = None THEN Raised
         ELSE Returned(reply(ReplyClosure(method, props), Error("Message is not JSON.")))
    ELSE IF props.reply_to = None
    THEN Returned(<<basic_ack(method.delivery_tag, method.delivery_tag)>>)
    ELSE CheckMethod(decode_json(body), ReplyClosure(method, props))

\* faulty variant: the path without reply address returns without acknowledging
Serve_unacked(method, props, body) ==
    IF ~Decodable(body) THEN Raised
    ELSE IF props.reply_to = None
    THEN Returned(<< >>)
    ELSE CheckMethod(decode_json(body), ReplyClosure(method, props))

\* lines 62-144
Serve(method, props, body) ==
    IF ~Decodable(body) THEN Raised                           \* decode_json raises
    ELSE IF props.reply_to = None
    THEN Returned(<<basic_ack(method.delivery_tag, method.delivery_tag)>>)
    ELSE CheckMethod(decode_json(body), ReplyClosure(method, props))

(***************************************************************************)
(* The consumer                                                            *)
(***************************************************************************)
Tags == 1 .. Len(served)

Acked == {calls[k].delivery_tag : k \in {j \in DOMAIN calls : calls[j].op = "basic_ack"}}

\* deliveries handed to the consumer and not acknowledged yet
Unacked == Tags \ Acked

Init ==
    /\ calls = << >>
    /\ served = << >>
    /\ deferred = {}
    /\ consuming = TRUE

\* faulty variant: no basic_qos, the broker does not wait for the ack of the
\* previous delivery
serve_without_prefetch(props, body) ==
    /\ consuming
    /\ Len(served) < MaxDeliveries
    /\ LET method == [delivery_tag |-> Len(served) + 1]
           out == Serve(method, props, body)
       IN  /\ calls' = calls \o out.calls
           /\ served' = Append(served,
                  [delivery_tag |-> method.delivery_tag, props |-> props, body |-> body,
                   result |-> out.result, invoked |-> out.invoked])
           /\ deferred' = deferred \cup out.kept
           /\ consuming' = (out.result = "returned")

\* The broker hands the next message to the callback registered by
\* basic_consume, under basic_qos(prefetch_count=1); an exception raised by
\* the callback leaves start_consuming.
serve(props, body) ==
    /\ consuming
    /\ Len(served) < MaxDeliveries
    /\ Cardinality(Unacked) < PREFETCH_COUNT
    /\ LET method == [delivery_tag |-> Len(served) + 1]
           out == Serve(method, props, body)
       IN  /\ calls' = calls \o out.calls
           /\ served' = Append(served,
                  [delivery_tag |-> method.delivery_tag, props |-> props, body |-> body,
                   result |-> out.result, invoked |-> out.invoked])
           /\ deferred' = deferred \cup out.kept
           /\ consuming' = (out.result = "returned")

\* The handler `later` calls the reply closure it kept.
DeferredReply ==
    \E reply_fun \in deferred :
        /\ calls' = calls \o reply(reply_fun, JStr("done"))
        /\ deferred' = deferred \ {reply_fun}
        /\ UNCHANGED <<served, consuming>>

Next ==
    \/ \E e \in Envelopes : serve(e.props, e.body)
    \/ DeferredReply

Spec == Init /\ [][Next]_vars

(***************************************************************************)
(* Observations used by the properties                                     *)
(***************************************************************************)
\* the calls issued on behalf of delivery `tag`, in order
CallsBy(tag) == SelectSeq(calls, LAMBDA c : c.by = tag)

PublishesBy(tag) == SelectSeq(calls, LAMBDA c : c.by = tag /\ c.op = "basic_publish")

AcksOf(tag) == SelectSeq(calls, LAMBDA c : c.op = "basic_ack" /\ c.delivery_tag = tag)

\* one publish of `text` to the reply address of delivery d with its
\* correlation id on the empty exchange, then one ack of its tag
OneReply(d, text) ==
    << [op |-> "basic_publish", exchange |-> "", routing_key |-> d.props.reply_to,
        correlation_id |-> d.props.correlation_id, body |-> text, by |-> d.delivery_tag],
       [op |-> "basic_ack", delivery_tag |-> d.delivery_tag, by |-> d.delivery_tag] >>

OnlyAck(d) == << [op |-> "basic_ack", delivery_tag |-> d.delivery_tag, by |-> d.delivery_tag] >>

HasReplyAddress(d) == d.props.reply_to # None

\* the payload decodes to a JSON object (a Request) and a reply address is given
IsRequest(d) ==
    /\ HasReplyAddress(d)
    /\ Decodable(d.body)
    /\ decode_json(d.body).kind = "obj"

Req(d) == decode_json(d.body)

\* the request carries key `k` with a string value
HasStr(d, k) == k \in Keys(Req(d)) /\ GetItem(Req(d), k).kind = "str"

\* the request carries key "args" with a JSON object as value
HasArgsObject(d) == "args" \in Keys(Req(d)) /\ GetItem(Req(d), "args").kind = "obj"

MethodName(d) == GetItem(Req(d), "method").str

ArgsOf(d) == GetItem(Req(d), "args")

AttributeNames == HandlerNames \cup OwnMethods \cup DataAttributes

\* the declared parameters of a handler other than reply_fun, in order
Declared(name) == SelectSeq(signature(name), LAMBDA a : a # "reply_fun")

DeclaredSet(name) == {Declared(name)[k] : k \in DOMAIN Declared(name)}

ErrorText(message) == "{\"error\": \"" \o message \o "\"}"

(***************************************************************************)
(* C1                                                                      *)
(***************************************************************************)
PlainEcho(d) ==
    /\ IsRequest(d)
    /\ Keys(Req(d)) = {"method", "args"}
    /\ GetItem(Req(d), "method") = JStr("echo")
    /\ HasArgsObject(d)
    /\ Keys(ArgsOf(d)) = {"msg"}

\* C1: a request {"method":"echo","args":{"msg": v}} with reply address R and
\* correlation id C causes exactly one basic_publish (routing key R,
\* correlation id C, body the JSON text of v) followed by exactly one
\* basic_ack of the delivery's tag, and nothing else.
EchoRepliesOnce ==
    \A i \in DOMAIN served :
        PlainEcho(served[i]) =>
            CallsBy(i) = OneReply(served[i], encode_json(GetItem(ArgsOf(served[i]), "msg")))

EchoServed ==
    \E i \in DOMAIN served :
        /\ PlainEcho(served[i])
        /\ GetItem(ArgsOf(served[i]), "msg") = JNum(5)
        /\ served[i].result = "returned"

AckedExactlyOnce ==
    \A i \in DOMAIN served :
        Len(AcksOf(i)) = 1 /\ Len(PublishesBy(i)) <= 1

(***************************************************************************)
(* C4                                                                      *)
(***************************************************************************)
MissingMethod(d) == IsRequest(d) /\ "method" \notin Keys(Req(d))

\* C4 (as claimed): a request without 'method' gets exactly one reply, with
\* body {"error": "Attribute 'method' must be specified."} and the request's
\* correlation id, then the ack; no handler is invoked.
MissingMethodQuoted ==
    \A i \in DOMAIN served :
        MissingMethod(served[i]) =>
            /\ CallsBy(i) = OneReply(served[i],
                                ErrorText("Attribute 'method' must be specified."))
            /\ served[i].invoked = << >>

\* C4 (amended): a request without 'method' gets exactly one reply, with body
\* {"error": "Attribute method must be specified."} (the attribute name is
\* not quoted) and the request's correlation id, then the ack; no handler is
\* invoked.
MissingMethodReported ==
    \A i \in DOMAIN served :
        MissingMethod(served[i]) =>
            /\ CallsBy(i) = OneReply(served[i],
                                ErrorText("Attribute method must be specified."))
            /\ served[i].invoked = << >>

MissingMethodServed ==
    \E i \in DOMAIN served :
        /\ MissingMethod(served[i])
        /\ "args" \in Keys(Req(served[i]))
        /\ served[i].props.correlation_id = "C2"

(***************************************************************************)
(* C5                                                                      *)
(***************************************************************************)
UnknownMethod(d) ==
    /\ IsRequest(d)
    /\ HasStr(d, "method")
    /\ MethodName(d) \notin AttributeNames

\* C5: a request whose 'method' names nothing on the server gets exactly one
\* reply {"error": "Method specified does not exist: <name>."} with the
\* requested name, then the ack; no handler is invoked.
UnknownMethodReported ==
    \A i \in DOMAIN served :
        UnknownMethod(served[i]) =>
            /\ CallsBy(i) = OneReply(served[i],
                    ErrorText("Method specified does not exist: "
                              \o MethodName(served[i]) \o "."))
            /\ served[i].invoked = << >>

UnknownMethodServed ==
    \E i \in DOMAIN served :
        /\ UnknownMethod(served[i])
        /\ MethodName(served[i]) = "foo"
        /\ "args" \in Keys(Req(served[i]))

(***************************************************************************)
(* C6                                                                      *)
(***************************************************************************)
MissingArgs(d) ==
    /\ IsRequest(d)
    /\ HasStr(d, "method")
    /\ MethodName(d) \in AttributeNames
    /\ "args" \notin Keys(Req(d))

\* C6 (as claimed): a request that names a resolvable method and has no
\* 'args' gets exactly one reply, with body {"error": "Message received does
\* not have arguments in attribute 'args'."}, then the ack; no handler is
\* invoked.
MissingArgsQuoted ==
    \A i \in DOMAIN served :
        MissingArgs(served[i]) =>
            /\ CallsBy(i) = OneReply(served[i],
                    ErrorText("Message received does not have arguments in attribute 'args'."))
            /\ served[i].invoked = << >>

\* C6 (amended): a request that names a resolvable method and has no 'args'
\* gets exactly one reply, with body {"error": "Message received does not
\* have arguments in attribute args."} (the attribute name is not quoted),
\* then the ack; no handler is invoked.
MissingArgsReported ==
    \A i \in DOMAIN served :
        MissingArgs(served[i]) =>
            /\ CallsBy(i) = OneReply(served[i],
                    ErrorText("Message received does not have arguments in attribute args."))
            /\ served[i].invoked = << >>

MissingArgsServed ==
    \E i \in DOMAIN served :
        /\ MissingArgs(served[i])
        /\ MethodName(served[i]) = "echo"
        /\ Len(CallsBy(i)) = 2

(***************************************************************************)
(* C7                                                                      *)
(***************************************************************************)
\* a handler is resolved and some parameter it declares is not a key of args
MissingArgument(d) ==
    /\ IsRequest(d)
    /\ HasStr(d, "method")
    /\ MethodName(d) \in HandlerNames
    /\ HasArgsObject(d)
    /\ ~(DeclaredSet(MethodName(d)) \subseteq Keys(ArgsOf(d)))

\* the first declared parameter that is not a key of args
FirstMissing(d) ==
    LET declared == Declared(MethodName(d))
        k == CHOOSE k \in DOMAIN declared :
                /\ declared[k] \notin Keys(ArgsOf(d))
                /\ \A j \in 1 .. (k - 1) : declared[j] \in Keys(ArgsOf(d))
    IN  declared[k]

\* C7 (as claimed): when a declared parameter of the resolved handler is not
\* a key of 'args', exactly one reply is published, {"error": "Message
\* received does not specify argument <name> in attribute 'args'."} with
\* <name> the first missing parameter in declared order, then the ack; the
\* handler is not invoked.
MissingArgumentQuoted ==
    \A i \in DOMAIN served :
        MissingArgument(served[i]) =>
            /\ CallsBy(i) = OneReply(served[i],
                    ErrorText("Message received does not specify argument "
                              \o FirstMissing(served[i]) \o " in attribute 'args'."))
            /\ served[i].invoked = << >>

\* C7 (amended): when a declared parameter of the resolved handler is not a
\* key of 'args', exactly one reply is published, {"error": "Message received
\* does not specify argument <name> in attribute args."} (the attribute name
\* is not quoted) with <name> the first missing parameter in declared order,
\* then the ack; the handler is not invoked.
MissingArgumentReported ==
    \A i \in DOMAIN served :
        MissingArgument(served[i]) =>
            /\ CallsBy(i) = OneReply(served[i],
                    ErrorText("Message received does not specify argument "
                              \o FirstMissing(served[i]) \o " in attribute args."))
            /\ served[i].invoked = << >>

\* both parameters of add are missing; x is the one reported
MissingArgumentServed ==
    \E i \in DOMAIN served :
        /\ MissingArgument(served[i])
        /\ MethodName(served[i]) = "add"
        /\ Keys(ArgsOf(served[i])) = {}
        /\ Len(CallsBy(i)) = 2

(***************************************************************************)
(* C8                                                                      *)
(***************************************************************************)
\* a request to echo whose args carry msg and keys echo does not declare
EchoWithExtraKeys(d) ==
    /\ IsRequest(d)
    /\ HasStr(d, "method")
    /\ MethodName(d) = "echo"
    /\ HasArgsObject(d)
    /\ "msg" \in Keys(ArgsOf(d))
    /\ Keys(ArgsOf(d)) \ {"msg"} # {}
    /\ "reply_fun" \notin Keys(ArgsOf(d))

\* C8: a request to echo with args {"msg": v} plus undeclared keys produces
\* the publish and the single ack of the request with args {"msg": v} alone,
\* and echo is invoked with msg only.
ExtraKeysIgnored ==
    \A i \in DOMAIN served :
        EchoWithExtraKeys(served[i]) =>
            /\ CallsBy(i) = OneReply(served[i], encode_json(GetItem(ArgsOf(served[i]), "msg")))
            /\ served[i].invoked =
                 <<[name |-> "echo", kwargs |-> JObj(Msg(GetItem(ArgsOf(served[i]), "msg")))]>>

(***************************************************************************)
(* C9                                                                      *)
(***************************************************************************)
\* The error the checks method-present, method-resolves, args-present,
\* named-arguments-present yield when taken in this order, "" when all pass.
FirstFailure(d) ==
    IF "method" \notin Keys(Req(d))
        THEN "Attribute method must be specified."
    ELSE IF MethodName(d) \notin AttributeNames
        THEN "Method specified does not exist: " \o MethodName(d) \o "."
    ELSE IF "args" \notin Keys(Req(d))
        THEN "Message received does not have arguments in attribute args."
    ELSE IF /\ MethodName(d) \in HandlerNames
            /\ ArgsOf(d).kind = "obj"
            /\ ~(DeclaredSet(MethodName(d)) \subseteq Keys(ArgsOf(d)))
        THEN "Message received does not specify argument " \o FirstMissing(d)
                 \o " in attribute args."
    ELSE ""

\* C9: of the checks method-present, method-resolves, args-present,
\* named-arguments-present the first that fails, in this order, alone
\* determines the reply: exactly one reply is published, carrying the error
\* of that check.
FirstFailureWins ==
    \A i \in DOMAIN served :
        (/\ IsRequest(served[i])
         /\ ("method" \in Keys(Req(served[i])) => HasStr(served[i], "method"))
         /\ FirstFailure(served[i]) # "") =>
            /\ CallsBy(i) = OneReply(served[i], ErrorText(FirstFailure(served[i])))
            /\ served[i].invoked = << >>

\* one delivery lacked both keys, another named an unknown method without args
SeveralFailuresServed ==
    \E i, j \in DOMAIN served :
        /\ IsRequest(served[i])
        /\ Keys(Req(served[i])) = {}
        /\ IsRequest(served[j])
        /\ UnknownMethod(served[j])
        /\ "args" \notin Keys(Req(served[j]))
        /\ Len(calls) = 4

(***************************************************************************)
(* C10                                                                     *)
(***************************************************************************)
\* the handler invoked for delivery i has not called the reply closure
HandlerSilent(i) ==
    /\ served[i].invoked # << >>
    /\ \/ served[i].invoked[1].name = "mute"
       \/ /\ served[i].invoked[1].name = "later"
          /\ \E reply_fun \in deferred : reply_fun.delivery_tag = i

\* C10: for deliveries with a reply address every basic_ack is immediately
\* preceded by the basic_publish of the same delivery, every basic_publish
\* belongs to such a delivery, and a delivery whose handler returned
\* without calling reply has no publish and no ack.
PublishThenAckInsideReply ==
    /\ \A k \in DOMAIN calls :
          (calls[k].op = "basic_ack" /\ HasReplyAddress(served[calls[k].delivery_tag])) =>
              /\ k > 1
              /\ calls[k - 1].op = "basic_publish"
              /\ calls[k - 1].by = calls[k].delivery_tag
              /\ calls[k - 1].routing_key = served[calls[k].delivery_tag].props.reply_to
    /\ \A k \in DOMAIN calls :
          calls[k].op = "basic_publish" => HasReplyAddress(served[calls[k].by])
    /\ \A i \in DOMAIN served :
          (HasReplyAddress(served[i]) /\ HandlerSilent(i)) =>
              CallsBy(i) = << >> /\ i \in Unacked

\* an earlier delivery was answered, the handler of the last one stays silent
SilentHandlerServed ==
    \E i \in DOMAIN served :
        /\ HasReplyAddress(served[i])
        /\ HandlerSilent(i)
        /\ served[i].invoked[1].name = "mute"
        /\ \E k \in DOMAIN calls : calls[k].op = "basic_ack" /\ calls[k].by # i
                                    /\ HasReplyAddress(served[calls[k].by])

(***************************************************************************)
(* C11                                                                     *)
(***************************************************************************)
\* C11: every basic_publish, over any sequence of deliveries, goes to the
\* empty exchange with the reply_to and the correlation id of the delivery
\* it answers, and is directly followed by the basic_ack of that delivery's
\* tag.
RepliesCarryOwnMetadata ==
    \A k \in DOMAIN calls :
        calls[k].op = "basic_publish" =>
            /\ calls[k].by \in DOMAIN served
            /\ calls[k].exchange = ""
            /\ calls[k].routing_key = served[calls[k].by].props.reply_to
            /\ calls[k].correlation_id = served[calls[k].by].props.correlation_id
            /\ k + 1 \in DOMAIN calls
            /\ calls[k + 1].op = "basic_ack"
            /\ calls[k + 1].delivery_tag = served[calls[k].by].delivery_tag

\* two clients were answered, the first of them by a deferred reply
TwoClientsAnswered ==
    \E i, j \in DOMAIN served :
        /\ i < j
        /\ served[i].props.reply_to = "R2"
        /\ served[i].invoked # << >>
        /\ served[i].invoked[1].name = "later"
        /\ served[j].props.reply_to = "R1"
        /\ PublishesBy(i) # << >>
        /\ PublishesBy(j) # << >>

(***************************************************************************)
(* C12                                                                     *)
(***************************************************************************)
\* C12: a request that lacks 'method' or lacks 'args' makes serve publish
\* one error reply, acknowledge and return; serve never raises for it,
\* whatever the value of the key that is present.
MalformedRequestNeverRaises ==
    \A i \in DOMAIN served :
        (/\ IsRequest(served[i])
         /\ \/ "method" \notin Keys(Req(served[i]))
            \/ "args" \notin Keys(Req(served[i]))) =>
            /\ served[i].result = "returned"
            /\ Len(PublishesBy(i)) = 1
            /\ Len(AcksOf(i)) = 1
            /\ served[i].invoked = << >>

(***************************************************************************)
(* C13                                                                     *)
(***************************************************************************)
\* processing of delivery i ended in a failure: serve raised, or an error
\* was replied, or the handler returned without replying
Failed(i) ==
    \/ served[i].result = "raised"
    \/ /\ HasReplyAddress(served[i])
       /\ served[i].result = "returned"
       /\ served[i].invoked = << >>
    \/ /\ served[i].invoked # << >>
       /\ served[i].invoked[1].name = "mute"

\* C13: after a delivery whose processing failed, every later delivery is
\* still handed to serve, and makes the calls it makes when served alone.
FailuresAreLocal ==
    /\ (/\ served # << >>
        /\ Len(served) < MaxDeliveries
        /\ Failed(Len(served))) =>
            \A e \in Envelopes : ENABLED serve(e.props, e.body)
    /\ \A i, j \in DOMAIN served :
          (/\ i < j
           /\ Failed(i)
           /\ \A k \in DOMAIN served[j].invoked : served[j].invoked[k].name # "later") =>
              CallsBy(j) = Serve([delivery_tag |-> j], served[j].props, served[j].body).calls

(***************************************************************************)
(* C14                                                                     *)
(***************************************************************************)
\* C14: acknowledgements follow the order of delivery: when a delivery is
\* acknowledged, every earlier delivery has been acknowledged before.
AcksInDeliveryOrder ==
    \A k \in DOMAIN calls :
        calls[k].op = "basic_ack" =>
            \A i \in 1 .. (calls[k].delivery_tag - 1) :
                \E j \in 1 .. (k - 1) :
                    calls[j].op = "basic_ack" /\ calls[j].delivery_tag = i

\* the first delivery was acknowledged by a deferred reply, the second after it
DeferredThenNextAcked ==
    /\ Len(served) = 2
    /\ served[1].invoked # << >>
    /\ served[1].invoked[1].name = "later"
    /\ AcksOf(1) # << >>
    /\ AcksOf(2) # << >>

(***************************************************************************)
(* C15                                                                     *)
(***************************************************************************)
\* C15: a request whose 'method' is "run" is dispatched to on_run: on_run is
\* invoked and its reply is published.
RunInvokesOnRun ==
    \A i \in DOMAIN served :
        (/\ IsRequest(served[i])
         /\ HasStr(served[i], "method")
         /\ MethodName(served[i]) = "run"
         /\ HasArgsObject(served[i])
         /\ Keys(ArgsOf(served[i])) = {}) =>
            /\ served[i].invoked = <<[name |-> "on_run", kwargs |-> ArgsOf(served[i])]>>
            /\ CallsBy(i) = OneReply(served[i], "\"ran\"")

(***************************************************************************)
(* C16                                                                     *)
(***************************************************************************)
\* C16: a handler is invoked only for a delivery with a reply address whose
\* request has 'method', naming an attribute of the server, and 'args', with
\* every declared parameter of the handler other than reply_fun a key of
\* 'args'; it is the named handler, and it is invoked at most once.
InvokedOnlyWhenValid ==
    \A i \in DOMAIN served :
        served[i].invoked # << >> =>
            /\ Len(served[i].invoked) = 1
            /\ IsRequest(served[i])
            /\ HasStr(served[i], "method")
            /\ MethodName(served[i]) \in AttributeNames
            /\ served[i].invoked[1].name = MethodName(served[i])
            /\ HasArgsObject(served[i])
            /\ DeclaredSet(MethodName(served[i])) \subseteq Keys(ArgsOf(served[i]))

\* add was invoked with both of its arguments
HandlerInvoked ==
    \E i \in DOMAIN served :
        /\ served[i].invoked # << >>
        /\ served[i].invoked[1].name = "add"
        /\ Keys(served[i].invoked[1].kwargs) = {"x", "y"}

(***************************************************************************)
(* C17                                                                     *)
(***************************************************************************)
\* the reply is not the does-not-exist error and serve did not raise
Selected(i) ==
    /\ served[i].result = "returned"
    /\ \A k \in DOMAIN calls :
          (calls[k].by = i /\ calls[k].op = "basic_publish") =>
              calls[k].body # ErrorText("Method specified does not exist: "
                                        \o MethodName(served[i]) \o ".")

\* C17: a requested name that is a handler of the server selects that
\* handler; every other name, names of other attributes of the server object
\* included, gets the does-not-exist error and nothing else: no other reply,
\* no invocation, no exception.
ResolutionHasTwoOutcomes ==
    \A i \in DOMAIN served :
        (IsRequest(served[i]) /\ HasStr(served[i], "method")) =>
            IF MethodName(served[i]) \in HandlerNames
            THEN Selected(i) \/ served[i].result = "raised"
            ELSE /\ CallsBy(i) = OneReply(served[i],
                        ErrorText("Method specified does not exist: "
                                  \o MethodName(served[i]) \o "."))
                 /\ served[i].invoked = << >>
                 /\ served[i].result = "returned"

(***************************************************************************)
(* C18                                                                     *)
(***************************************************************************)
\* C18: the reply closure of a delivery causes at most one basic_publish and
\* at most one basic_ack of the delivery's tag, however often the handler
\* calls it.
ReplyIsSingleUse ==
    \A i \in DOMAIN served :
        HasReplyAddress(served[i]) =>
            Len(PublishesBy(i)) <= 1 /\ Len(AcksOf(i)) <= 1

(***************************************************************************)
(* C19                                                                     *)
(***************************************************************************)
\* C19: for a payload that does not decode, with or without reply address,
\* nothing is published and no handler is invoked; the delivery is
\* acknowledged or serve aborts.
UndecodableNotAnswered ==
    \A i \in DOMAIN served :
        ~Decodable(served[i].body) =>
            /\ PublishesBy(i) = << >>
            /\ served[i].invoked = << >>
            /\ served[i].result = "raised" \/ Len(AcksOf(i)) = 1

\* an undecodable payload arrived with a reply address, after an answered delivery
UndecodableServed ==
    \E i \in DOMAIN served :
        /\ ~Decodable(served[i].body)
        /\ HasReplyAddress(served[i])
        /\ calls # << >>

(***************************************************************************)
(* C20                                                                     *)
(***************************************************************************)
\* the request names a method of the server that does not declare reply_fun
NamesPlainMethod(d) ==
    /\ IsRequest(d)
    /\ HasStr(d, "method")
    /\ MethodName(d) \in OwnMethods

\* C20: when the resolved method does not declare reply_fun and 'args' is
\* present, exactly one reply is published, the error saying that the method
\* must declare 'reply_fun', then the ack, and the method is not invoked,
\* although its own parameters are missing from 'args' too; without 'args'
\* the missing-args error is replied instead.
ReplyFunMustBeDeclared ==
    \A i \in DOMAIN served :
        NamesPlainMethod(served[i]) =>
            /\ served[i].invoked = << >>
            /\ CallsBy(i) = OneReply(served[i],
                 IF "args" \in Keys(Req(served[i]))
                 THEN ErrorText("Method <bound method RPCServer." \o MethodName(served[i])
                        \o " of <rabbitmq.rpc_server.RPCServer object at " \o ObjectAddress
                        \o ">> must declare a parameter 'reply_fun' that must be invoked"
                        \o " to reply to an invokation.")
                 ELSE ErrorText("Message received does not have arguments in attribute args."))

\* setup was requested with args that lack its parameters
PlainMethodServed ==
    \E i \in DOMAIN served :
        /\ NamesPlainMethod(served[i])
        /\ MethodName(served[i]) = "setup"
        /\ HasArgsObject(served[i])
        /\ ~(DeclaredSet("setup") \subseteq Keys(ArgsOf(served[i])))
        /\ Len(CallsBy(i)) = 2

====
